---- MODULE Spec2Model ----
(***************************************************************************)
(* Model of robustpca.py: the bootstrap of the robust-PCA eigen system     *)
(* (initalise_robust_pca_param) and the pass loop of run_robust_pca.       *)
(*                                                                         *)
(* Observations have one feature (P = 1), so the SVD of the normalised     *)
(* centred data is known in closed form: one right singular vector [+-1]   *)
(* and one eigenvalue sum(c_i^2)/N.  Real numbers are kept exact: a mean   *)
(* is <<sum, count>>, centred data and residuals are kept as numerators    *)
(* over the common denominators N and N^2.  Floating point values whose    *)
(* size depends on the external weighting functions are kept by their      *)
(* kind: "nan", "zero", "inf", "pos" (finite and positive).                *)
(* Arrays are functions over 0..n-1, as numpy indexes them.                *)
(***************************************************************************)
EXTENDS Integers, Sequences, FiniteSets, TLC

\* ---- bounds of the model ----
MaxN == 3
MaxSeed == 4
MaxPasses == 2
GenStates == 6
MaxRows == 3

\* Python's None where a fraction or an array is expected, and where a row is
None == << >>
NoneRow == -1

\* number of features of one observation (data.shape[1])
number_of_pixels == 1

VARIABLES
    args,                       \* the arguments of run_robust_pca
    gen,                        \* state of the process-wide numpy generator
    np_random_seed,             \* what the attribute np.random.seed is bound to
    pc,                         \* position in run_robust_pca
    amount_of_spectra,
    forget_param,
    data,                       \* row i holds the observation with this original index
    errors,                     \* None, rows of original indices, or a list of None
    eigen_system_dict,
    pca_function,
    counter,
    save_amount,
    tracked_eigen_system_dict,
    start,
    k,
    sp,
    returned,                   \* the value run_robust_pca returned
    exception,                  \* the exception that ended the run, or None
    bootReads,                  \* what the bootstrap read, ran and passed on
    shuffles,                   \* permutations applied so far, in order
    calls,                      \* update calls so far: arguments and result
    writes,                     \* diagnostic rows written so far: index and state
    events,                     \* the shuffles, bootstrap and updates, in order
    genB,                       \* a second run of the same arguments: its generator,
    pcB,                        \*   its position,
    dataB,                      \*   its order of the observations,
    shufflesB,                  \*   and the permutations it applied
    maskIn,                     \* one call of mag_residual_sq: its arguments,
    maskOut,                    \*   what it returned or raised,
    maskPc                      \*   and whether it was made

vars == <<args, gen, np_random_seed, pc, amount_of_spectra, forget_param, data,
          errors, eigen_system_dict, pca_function, counter, save_amount,
          tracked_eigen_system_dict, start, k, sp, returned, exception,
          bootReads, shuffles, calls, writes, events, genB, pcB, dataB, shufflesB,
          maskIn, maskOut, maskPc>>

secondRun == <<genB, pcB, dataB, shufflesB>>

oneCall == <<maskIn, maskOut, maskPc>>

\* ---- small helpers ----
Range0(n) == 0 .. (n - 1)

Min(a, b) == IF a < b THEN a ELSE b

RECURSIVE Fact(_)
Fact(n) == IF n <= 1 THEN 1 ELSE n * Fact(n - 1)

RECURSIVE SumOver(_, _)
\* sum of f[i] for i in the finite set S
SumOver(f, S) ==
    IF S = {} THEN 0
    ELSE LET i == CHOOSE j \in S : TRUE IN f[i] + SumOver(f, S \ {i})

RemoveAt(s, j) == SubSeq(s, 1, j - 1) \o SubSeq(s, j + 1, Len(s))

\* a sequence as a 0-based array
ToArray(s) == [i \in Range0(Len(s)) |-> s[i + 1]]

\* ---- the process-wide generator (numpy's global RandomState) ----
\* np.random.shuffle is a deterministic function of the generator state: it
\* returns a permutation decided by the state and moves the state on.
RECURSIVE ShuffleSeq(_, _)
ShuffleSeq(items, code) ==
    IF Len(items) = 0 THEN << >>
    ELSE LET n == Len(items)
             j == (code % n) + 1
         IN  <<items[j]>> \o ShuffleSeq(RemoveAt(items, j), code \div n)

\* np.arange(n) shuffled in place under generator state g
np_random_shuffle(n, g) ==
    ToArray(ShuffleSeq([i \in 1 .. n |-> i - 1], g % Fact(n)))

np_random_advance(g) == (5 * g + 1) % GenStates

\* slip: the mask map is returned in its old order
randomise_data_only(d, e, g) ==
    LET n == Cardinality(DOMAIN d)
        random_indicies == np_random_shuffle(n, g)
    IN  [data |-> [i \in Range0(n) |-> d[random_indicies[i]]], errors |-> e,
         perm |-> random_indicies, gen |-> np_random_advance(g)]

\* ---- randomise_data_order ----
\* returns the reordered data and errors, the permutation used and the
\* generator state after the call
\* e.kind: "None" (errors is None), "array", or "list of None"
randomise_data_order(d, e, g) ==
    LET n == Cardinality(DOMAIN d)
        random_indicies == np_random_shuffle(n, g)
        data_random == [i \in Range0(n) |-> d[random_indicies[i]]]
        errors_random ==
            IF e.kind = "None" THEN e
            ELSE IF e.rows[0] = NoneRow THEN e
            ELSE [kind |-> e.kind,
                  rows |-> [i \in Range0(n) |-> e.rows[random_indicies[i]]]]
    IN  [data |-> data_random, errors |-> errors_random,
         perm |-> random_indicies, gen |-> np_random_advance(g)]

\* slip: memory left out of the product
forget_parameter_without_memory(n, mem) == <<n - 1, n>>

\* ---- forget_parameter ----
\* 1 - 1/(amount_of_spectra*memory) as the fraction <<numerator, denominator>>
forget_parameter(n, mem) == <<n * mem - 1, n * mem>>

\* ---- arithmetic on kinds of floating point values ----
\* kind of a/b for a >= 0 of kind "zero" or "pos"
KindDiv(a, b) ==
    IF a = "nan" \/ b = "nan" THEN "nan"
    ELSE IF b = "zero" THEN (IF a = "zero" THEN "nan" ELSE "inf")
    ELSE IF a = "zero" THEN "zero" ELSE "pos"

KindMul(a, b) ==
    IF a = "nan" \/ b = "nan" THEN "nan"
    ELSE IF a = "zero" \/ b = "zero" THEN "zero"
    ELSE "pos"

\* kind of np.nanmean over values of these kinds (none of them negative)
KindNanMean(kinds) ==
    IF kinds \subseteq {"nan"} THEN "nan"
    ELSE IF "pos" \in kinds \/ "inf" \in kinds THEN "pos"
    ELSE "zero"

\* the shape parameter c_sq where none is passed (0.787**2), and another one
DefaultCSq == "0.787**2"

ShapeParams == {DefaultCSq, "2.0"}

\* core.cauchy_like_function: a weight in (0, 1] for finite t, tending to 0,
\* for every shape parameter
cauchy_like_function(t, c_sq) ==
    IF t = "nan" THEN "nan" ELSE IF t = "inf" THEN "zero" ELSE "pos"

\* core.derivate_of_cauchy_like_function: finite and nonzero for finite t
derivate_of_cauchy_like_function(t, c_sq) ==
    IF t = "nan" THEN "nan" ELSE IF t = "inf" THEN "zero" ELSE "pos"

\* ---- mean_subtracted_data ----
\* x: the rows of the data.  The mean is <<sum, count>>; the centred rows
\* are returned as numerators over the denominator count.
mean_subtracted_data(x) ==
    LET n == Cardinality(DOMAIN x)
        total == SumOver(x, DOMAIN x)
    IN  [centred_data |-> [i \in DOMAIN x |-> n * x[i] - total],
         vector_mean |-> <<total, n>>,
         rows |-> DOMAIN x]

\* ---- initalise_eigensystem / get_eigen_system / do_initial_SVD ----
\* c: centred rows (numerators over n).  The data is divided by sqrt(n) and
\* decomposed; with one feature there is one eigenvector and the eigenvalue
\* sum((c_i/n)^2)/n = <<sum(c_i^2), n^3>>.
initalise_eigensystem(c) ==
    LET n == Cardinality(DOMAIN c)
        sq == [i \in DOMAIN c |-> c[i] * c[i]]
    IN  [eigen_vectors |-> number_of_pixels,
         eigen_values |-> << <<SumOver(sq, DOMAIN c), n * n * n>> >>,
         rows |-> DOMAIN c]

\* rows 0..amount-1 of an array (a[:amount])
Slice(a, amount) ==
    [i \in Range0(Min(amount, Cardinality(DOMAIN a))) |-> a[i]]

\* ---- get_residual / reconstruct_observation ----
\* c: the centred rows handed in, columns: number of eigenvectors kept.
\* residual = c - c.(E.E^T) is 0 when the one eigenvector is kept and c
\* otherwise.
get_residual(c, columns) ==
    [i \in DOMAIN c |-> IF columns >= number_of_pixels THEN 0 ELSE c[i]]

NoArray == [i \in {} |-> 0]

\* slip: the leading rows of a short mask are applied and the call goes on
mag_residual_sq_leading_rows(residuals, error_map) ==
    LET sliced == IF error_map = None THEN None
                  ELSE Slice(error_map, Cardinality(DOMAIN residuals))
    IN  [exception |-> "None",
         value |-> [i \in DOMAIN residuals |->
                      IF sliced # None /\ i \in DOMAIN sliced /\ sliced[i] = 0 THEN 0
                      ELSE residuals[i] * residuals[i]]]

\* ---- mag_residual_sq ----
\* error_map: None or the rows of the mask (0 flags the feature as bad).
\* The mask is cut to the first residuals.shape[0] rows and used as a boolean
\* index; numpy raises IndexError when its rows are not those of residuals.
\* A flagged feature is set to nan and skipped by nansum.
mag_residual_sq(residuals, error_map) ==
    LET sliced == IF error_map = None THEN None
                  ELSE Slice(error_map, Cardinality(DOMAIN residuals))
    IN  IF error_map # None /\ DOMAIN sliced # DOMAIN residuals
        THEN [exception |-> "IndexError", value |-> NoArray]
        ELSE [exception |-> "None",
              value |-> [i \in DOMAIN residuals |->
                           IF error_map # None /\ sliced[i] = 0 THEN 0
                           ELSE residuals[i] * residuals[i]]]

\* ---- get_mag_residuals_sq ----
get_mag_residuals_sq(c, columns, error_map) ==
    mag_residual_sq(get_residual(c, columns), error_map).value

KindOf(r) == IF r = 0 THEN "zero" ELSE "pos"

\* ---- initalise_scale_using_residuals_sq ----
RECURSIVE ScaleRounds(_, _, _, _)
\* the loop of lines 283-287 with `todo` rounds still to run.  loop.scale_sq:
\* the kind of scale_sq, loop.rounds: the rounds run so far, loop.shapes: the
\* shape parameters handed to the weighting function so far
ScaleRounds(loop, residuals_sq, todo, c_sq) ==
    IF todo <= 0 THEN loop
    ELSE LET t == {KindDiv(KindOf(residuals_sq[i]), loop.scale_sq) :
                      i \in DOMAIN residuals_sq}
             robust_weighting == {cauchy_like_function(tk, c_sq) : tk \in t}
         IN  ScaleRounds([scale_sq |-> KindMul(loop.scale_sq,
                                               KindNanMean(robust_weighting)),
                          rounds |-> loop.rounds + 1,
                          shapes |-> loop.shapes \cup {c_sq}],
                         residuals_sq, todo - 1, c_sq)

\* slip: as many rounds as eigenvectors are kept
initalise_scale_rounds_as_columns(residuals_sq, amount, c_sq) ==
    LET first == KindNanMean({KindOf(residuals_sq[i]) : i \in DOMAIN residuals_sq})
    IN  ScaleRounds([scale_sq |-> first, rounds |-> 0, shapes |-> {}],
                    residuals_sq, Min(amount, number_of_pixels), c_sq)

\* range(amount_of_eigen) rounds from the mean of the residuals
initalise_scale_using_residuals_sq(residuals_sq, amount, c_sq) ==
    LET first == KindNanMean({KindOf(residuals_sq[i]) : i \in DOMAIN residuals_sq})
    IN  ScaleRounds([scale_sq |-> first, rounds |-> 0, shapes |-> {}],
                    residuals_sq, amount, c_sq)

\* ---- initalise_vqu ----
\* returns the triple and the shape parameter handed to the derivative
initalise_vqu(residuals_sq, scale_sq, c_sq) ==
    LET idx == DOMAIN residuals_sq
        weight1 == [i \in idx |->
                      derivate_of_cauchy_like_function(
                          KindDiv(KindOf(residuals_sq[i]), scale_sq), c_sq)]
    IN  [vqu |-> <<KindNanMean({weight1[i] : i \in idx}),
                   KindNanMean({KindMul(weight1[i], KindOf(residuals_sq[i])) : i \in idx}),
                   KindNanMean({"pos" : i \in idx})>>,
         shapes |-> {c_sq}]

\* ---- input_for_pca ----
\* steps: the update calls folded into the state since the bootstrap
input_for_pca(mean_array, eigen_values, eigen_vectors, scale_sq, vqu) ==
    [U |-> eigen_vectors, m |-> mean_array, W |-> eigen_values,
     vqu |-> vqu, sig2 |-> scale_sq, steps |-> << >>]

\* slip: the mean and the eigen system computed over the seed rows only
BootstrapSeedRows(x, amount) == Slice(x, amount)

\* the rows the mean and the eigen system are computed over
BootstrapRows(x, amount) == x

\* ---- initalise_robust_pca_param ----
\* x: rows of the data, e: None or rows of the mask.  Beside the eigen system
\* the result tells the rows each step read, the rounds of the scale loop and
\* the shape parameters handed to the weighting function and its derivative.
initalise_robust_pca_param(x, e, amount_of_eigen, amount_to_initalise, c_sq) ==
    LET centring == mean_subtracted_data(BootstrapRows(x, amount_to_initalise))
        eigen == initalise_eigensystem(centring.centred_data)
        columns == Min(amount_of_eigen, eigen.eigen_vectors)
        eigen_values_initial == SubSeq(eigen.eigen_values, 1,
                                       Min(amount_of_eigen, Len(eigen.eigen_values)))
        seed_rows == Slice(centring.centred_data, amount_to_initalise)
        residuals_sq == get_mag_residuals_sq(seed_rows, columns, e)
        scale == initalise_scale_using_residuals_sq(residuals_sq, amount_of_eigen, c_sq)
        scale_sq_initial == scale.scale_sq
        running == initalise_vqu(residuals_sq, scale_sq_initial, c_sq)
        vqu_initial == running.vqu
    IN  [dict |-> input_for_pca(centring.vector_mean, eigen_values_initial,
                                columns, scale_sq_initial, vqu_initial),
         reads |-> [mean |-> centring.rows, eigen |-> eigen.rows,
                    residual |-> DOMAIN residuals_sq,
                    rounds |-> scale.rounds,
                    weight_shapes |-> scale.shapes,
                    derivative_shapes |-> running.shapes]]

\* ---- the external incremental updater ----
\* core.iterate_PCA / core.iterate_PCA_with_data_gaps: one state transition
\* state x observation x alpha x (mask | none) -> next state.  The next state
\* is a function of the bootstrap state and of everything folded in since.
IncrementalUpdate(state, new_spectra, alpha, error_array, c_sq) ==
    [state EXCEPT !.steps = Append(@, <<new_spectra, alpha, error_array, c_sq>>)]

\* ---- the diagnostic buffer ----
\* the value of one key of an eigen system, as stored in a buffer row
ValueOf(key, state) == [key |-> key, zeros |-> FALSE, state |-> state]

NoState == input_for_pca(<<0, 1>>, << >>, 0, "zero", <<"zero", "zero", "zero">>)

\* a row as np.zeros leaves it
ZerosOf(key) == [key |-> key, zeros |-> TRUE, state |-> NoState]

\* the dictionary {} before the first step
EmptyDict == [allocated |-> FALSE, W |-> [i \in {} |-> 0],
              sig2 |-> [i \in {} |-> 0], vqu |-> [i \in {} |-> 0]]

\* ---- initialise_tracked_eigen_updates ----
initialise_tracked_eigen_updates(amount, amount_of_eigen) ==
    [allocated |-> TRUE,
     W |-> [i \in Range0(amount) |-> ZerosOf("W")],
     sig2 |-> [i \in Range0(amount) |-> ZerosOf("sig2")],
     vqu |-> [i \in Range0(amount) |-> ZerosOf("vqu")]]

\* ---- run_robust_pca: the size of the buffer ----
SaveAmount(n, passes, seed) == n * passes - seed + 1

\* slip: every step writes row 0
track_into_first_row(cnt, state, tracked, amount) ==
    LET fresh == IF cnt = 0
                 THEN initialise_tracked_eigen_updates(amount, Len(state.W))
                 ELSE tracked
    IN  IF cnt = 0 /\ amount < 0
        THEN [tracked |-> tracked, counter |-> cnt, state |-> state,
              exception |-> "ValueError"]
        ELSE IF 0 \notin DOMAIN fresh.W
        THEN [tracked |-> fresh, counter |-> cnt, state |-> state,
              exception |-> "IndexError"]
        ELSE [tracked |-> [fresh EXCEPT !.W[0] = ValueOf("W", state),
                                        !.vqu[0] = ValueOf("vqu", state),
                                        !.sig2[0] = ValueOf("sig2", state)],
              counter |-> cnt + 1, state |-> state, exception |-> "None"]

\* slip: the assignment of sig2 is written the wrong way round, so the
\* eigen system takes the buffer's zero
track_assigning_backwards(cnt, state, tracked, amount) ==
    LET fresh == IF cnt = 0
                 THEN initialise_tracked_eigen_updates(amount, Len(state.W))
                 ELSE tracked
    IN  IF cnt = 0 /\ amount < 0
        THEN [tracked |-> tracked, counter |-> cnt, state |-> state,
              exception |-> "ValueError"]
        ELSE IF cnt \notin DOMAIN fresh.W
        THEN [tracked |-> fresh, counter |-> cnt, state |-> state,
              exception |-> "IndexError"]
        ELSE [tracked |-> [fresh EXCEPT !.W[cnt] = ValueOf("W", state),
                                        !.vqu[cnt] = ValueOf("vqu", state)],
              counter |-> cnt + 1, state |-> [state EXCEPT !.sig2 = "zero"],
              exception |-> "None"]

\* ---- track_eigensystem_updates ----
\* returns the buffer, the next counter, the eigen system as the call leaves
\* it (the dictionary is passed by reference) and the exception raised, if any
track_eigensystem_updates(cnt, state, tracked, amount) ==
    LET fresh == IF cnt = 0
                 THEN initialise_tracked_eigen_updates(amount, Len(state.W))
                 ELSE tracked
    IN  IF cnt = 0 /\ amount < 0
        THEN [tracked |-> tracked, counter |-> cnt, state |-> state,
              exception |-> "ValueError"]
        ELSE IF cnt \notin DOMAIN fresh.W
        THEN [tracked |-> fresh, counter |-> cnt, state |-> state,
              exception |-> "IndexError"]
        ELSE [tracked |-> [fresh EXCEPT !.W[cnt] = ValueOf("W", state),
                                        !.vqu[cnt] = ValueOf("vqu", state),
                                        !.sig2[cnt] = ValueOf("sig2", state)],
              counter |-> cnt + 1, state |-> state, exception |-> "None"]

\* ---- run_robust_pca ----
\* the forget values a caller supplies
Fractions == {<<0, 1>>}

\* the memory values a caller passes (the default and a longer one)
Memories == {1, 2}

\* the numbers of eigenvectors a caller asks for: none, and more than the
\* observations have features
AmountsOfEigen == {0, 2}

\* data sets of n observations: all alike, or the first one apart
DataSets(n) ==
    {[i \in Range0(n) |-> IF i < j THEN 0 ELSE 1] : j \in {0, 1}}

\* mask maps of n observations: all valid, or the first observation flagged
MaskSets(n) ==
    {[i \in Range0(n) |-> IF i = 0 THEN b ELSE 1] : b \in 0 .. 1}

\* the seed a caller passes (the default)
RandomSeeds == {1}

ArgSets ==
    UNION { [data : DataSets(n),
             errors : {None} \cup MaskSets(n),
             amount_of_eigen : AmountsOfEigen,
             amount_to_initalise : 0 .. MaxSeed,
             number_of_iterations : 0 .. MaxPasses,
             forget_param : {None} \cup Fractions,
             memory : Memories,
             save_extra_param : BOOLEAN,
             random_seed : RandomSeeds,
             c_sq : {DefaultCSq}] : n \in 1 .. MaxN }

NotReturned == [done |-> FALSE, state |-> NoState, tracked |-> EmptyDict,
                with_tracked |-> FALSE]

\* the state of one run before its first line, for arguments drawn from argSet
InitRun(argSet) ==
    /\ args \in argSet
    /\ gen \in Range0(GenStates)
    /\ np_random_seed = "function"
    /\ pc = "start"
    /\ amount_of_spectra = 0
    /\ forget_param = None
    /\ data = [i \in {} |-> 0]
    /\ errors = [kind |-> "None", rows |-> [i \in {} |-> 0]]
    /\ eigen_system_dict = NoState
    /\ pca_function = "None"
    /\ counter = 0
    /\ save_amount = 0
    /\ tracked_eigen_system_dict = EmptyDict
    /\ start = 0
    /\ k = 0
    /\ sp = 0
    /\ returned = NotReturned
    /\ exception = "None"
    /\ bootReads = [mean |-> {}, eigen |-> {}, residual |-> {}, rounds |-> 0,
                    weight_shapes |-> {}, derivative_shapes |-> {}]
    /\ shuffles = << >>
    /\ calls = << >>
    /\ writes = << >>
    /\ events = << >>

\* no call of a function on its own
NoCall ==
    /\ maskIn = [residuals |-> NoArray, error_map |-> None]
    /\ maskOut = [exception |-> "None", value |-> NoArray]
    /\ maskPc = "idle"

Init ==
    /\ InitRun(ArgSets)
    /\ genB = 0
    /\ pcB = "idle"
    /\ dataB = [i \in {} |-> 0]
    /\ shufflesB = << >>
    /\ NoCall

\* util.check_and_make_data_finite: the inputs are finite, nothing is replaced
check_and_make_data_finite(d, e) == <<d, e>>

\* lines 515-522: sanitise, take the shape, resolve the forget parameter.
\* Row i of data holds the observation with original index i.
Configure ==
    /\ pc = "start"
    /\ LET clean == check_and_make_data_finite(args.data, args.errors)
           n == Cardinality(DOMAIN clean[1])
       IN  /\ amount_of_spectra' = n
           /\ data' = [i \in Range0(n) |-> i]
           /\ errors' = IF clean[2] = None
                        THEN [kind |-> "None", rows |-> [i \in {} |-> 0]]
                        ELSE [kind |-> "array", rows |-> [i \in Range0(n) |-> i]]
           /\ forget_param' = IF args.forget_param = None
                              THEN forget_parameter(n, args.memory)
                              ELSE args.forget_param
    /\ pc' = "seed"
    /\ UNCHANGED secondRun
    /\ UNCHANGED oneCall
    /\ UNCHANGED <<args, gen, np_random_seed, eigen_system_dict, pca_function,
                   counter, save_amount, tracked_eigen_system_dict, start, k, sp,
                   returned, exception, bootReads, shuffles, calls, writes, events>>

\* line 523: np.random.seed = 1 rebinds the attribute; the generator is untouched
SeedAssign ==
    /\ pc = "seed"
    /\ np_random_seed' = "int"
    /\ pc' = "shuffle"
    /\ UNCHANGED secondRun
    /\ UNCHANGED oneCall
    /\ UNCHANGED <<args, gen, amount_of_spectra, forget_param, data, errors,
                   eigen_system_dict, pca_function, counter, save_amount,
                   tracked_eigen_system_dict, start, k, sp, returned, exception,
                   bootReads, shuffles, calls, writes, events>>

\* line 524
InitialShuffle ==
    /\ pc = "shuffle"
    /\ LET r == randomise_data_order(data, errors, gen)
       IN  /\ data' = r.data
           /\ errors' = r.errors
           /\ gen' = r.gen
           /\ shuffles' = Append(shuffles, r.perm)
    /\ events' = Append(events, [ev |-> "shuffle", k |-> -1, sp |-> -1])
    /\ pc' = "boot"
    /\ UNCHANGED secondRun
    /\ UNCHANGED oneCall
    /\ UNCHANGED <<args, np_random_seed, amount_of_spectra, forget_param,
                   eigen_system_dict, pca_function, counter, save_amount,
                   tracked_eigen_system_dict, start, k, sp, returned, exception,
                   bootReads, calls, writes>>

\* the content of the rows of data and of errors, in their current order
DataRows == [i \in DOMAIN data |-> args.data[data[i]]]

ErrorRows == IF errors.kind = "array"
             THEN [i \in DOMAIN errors.rows |-> args.errors[errors.rows[i]]]
             ELSE None

\* lines 529-533: c_sq is not among the arguments passed, so the callee's
\* default (line 386) applies
Bootstrap ==
    /\ pc = "boot"
    /\ LET b == initalise_robust_pca_param(DataRows, ErrorRows,
                                           args.amount_of_eigen,
                                           args.amount_to_initalise,
                                           DefaultCSq)
       IN  /\ eigen_system_dict' = b.dict
           /\ bootReads' = b.reads
    /\ events' = Append(events, [ev |-> "boot", k |-> -1, sp |-> -1])
    /\ pc' = "select"
    /\ UNCHANGED secondRun
    /\ UNCHANGED oneCall
    /\ UNCHANGED <<args, gen, np_random_seed, amount_of_spectra, forget_param,
                   data, errors, pca_function, counter, save_amount,
                   tracked_eigen_system_dict, start, k, sp, returned, exception,
                   shuffles, calls, writes>>

\* slip: pass 0 starts at index 0 too
FirstStartAtZero(seed) == 0

\* line 547 and line 557: where a pass starts
FirstStart(seed) == seed

LaterStart == 0

\* lines 535-548
SelectUpdater ==
    /\ pc = "select"
    /\ IF errors.kind # "None"
       THEN /\ pca_function' = "iterate_PCA_with_data_gaps"
            /\ errors' = errors
       ELSE /\ pca_function' = "iterate_PCA"
            /\ errors' = [kind |-> "list of None",
                          rows |-> [i \in Range0(amount_of_spectra) |-> NoneRow]]
    /\ counter' = 0
    /\ save_amount' = SaveAmount(amount_of_spectra, args.number_of_iterations,
                                 args.amount_to_initalise)
    /\ tracked_eigen_system_dict' = EmptyDict
    /\ start' = FirstStart(args.amount_to_initalise)
    /\ k' = 0
    /\ pc' = "for_k"
    /\ UNCHANGED secondRun
    /\ UNCHANGED oneCall
    /\ UNCHANGED <<args, gen, np_random_seed, amount_of_spectra, forget_param,
                   data, eigen_system_dict, sp, returned, exception, bootReads,
                   shuffles, calls, writes, events>>

\* lines 549-550: the next pass begins, sp runs over range(start, amount_of_spectra)
PassBegin ==
    /\ pc = "for_k"
    /\ k < args.number_of_iterations
    /\ sp' = start
    /\ pc' = "for_sp"
    /\ UNCHANGED secondRun
    /\ UNCHANGED oneCall
    /\ UNCHANGED <<args, gen, np_random_seed, amount_of_spectra, forget_param,
                   data, errors, eigen_system_dict, pca_function, counter,
                   save_amount, tracked_eigen_system_dict, start, k, returned,
                   exception, bootReads, shuffles, calls, writes, events>>

\* lines 551-553
Track ==
    /\ pc = "for_sp"
    /\ sp < amount_of_spectra
    /\ LET r == track_eigensystem_updates(counter, eigen_system_dict,
                                          tracked_eigen_system_dict, save_amount)
       IN  /\ eigen_system_dict' = r.state
           /\ exception' = r.exception
           /\ IF r.exception = "None"
              THEN /\ tracked_eigen_system_dict' = r.tracked
                   /\ counter' = r.counter
                   /\ writes' = Append(writes, [row |-> counter,
                                                state |-> eigen_system_dict])
                   /\ pc' = "update"
              ELSE /\ pc' = "raised"
                   /\ UNCHANGED <<tracked_eigen_system_dict, counter, writes>>
    /\ UNCHANGED secondRun
    /\ UNCHANGED oneCall
    /\ UNCHANGED <<args, gen, np_random_seed, amount_of_spectra, forget_param,
                   data, errors, pca_function, save_amount, start, k, sp,
                   returned, bootReads, shuffles, calls, events>>

\* lines 555-556
Update ==
    /\ pc = "update"
    /\ LET next == IncrementalUpdate(eigen_system_dict, data[sp], forget_param,
                                     errors.rows[sp], args.c_sq)
       IN  /\ calls' = Append(calls, [k |-> k, sp |-> sp, state |-> eigen_system_dict,
                                      new_spectra |-> data[sp], alpha |-> forget_param,
                                      error_array |-> errors.rows[sp],
                                      c_sq |-> args.c_sq,
                                      result |-> next])
           /\ eigen_system_dict' = next
    /\ events' = Append(events, [ev |-> "update", k |-> k, sp |-> sp])
    /\ sp' = sp + 1
    /\ pc' = "for_sp"
    /\ UNCHANGED secondRun
    /\ UNCHANGED oneCall
    /\ UNCHANGED <<args, gen, np_random_seed, amount_of_spectra, forget_param,
                   data, errors, pca_function, counter, save_amount,
                   tracked_eigen_system_dict, start, k, returned, exception,
                   bootReads, shuffles, writes>>

\* slip: the order is kept for the next pass
PassEndKeepingOrder ==
    /\ pc = "for_sp"
    /\ sp >= amount_of_spectra
    /\ start' = 0
    /\ k' = k + 1
    /\ pc' = "for_k"
    /\ UNCHANGED secondRun
    /\ UNCHANGED oneCall
    /\ UNCHANGED <<args, gen, np_random_seed, amount_of_spectra, forget_param,
                   data, errors, eigen_system_dict, pca_function, counter,
                   save_amount, tracked_eigen_system_dict, sp, returned,
                   exception, bootReads, shuffles, calls, writes, events>>

\* lines 557-562: the pass is over, reorder for the next one
PassEnd ==
    /\ pc = "for_sp"
    /\ sp >= amount_of_spectra
    /\ start' = LaterStart
    /\ LET r == randomise_data_order(data, errors, gen)
       IN  /\ data' = r.data
           /\ errors' = r.errors
           /\ gen' = r.gen
           /\ shuffles' = Append(shuffles, r.perm)
    /\ events' = Append(events, [ev |-> "shuffle", k |-> k, sp |-> -1])
    /\ k' = k + 1
    /\ pc' = "for_k"
    /\ UNCHANGED secondRun
    /\ UNCHANGED oneCall
    /\ UNCHANGED <<args, np_random_seed, amount_of_spectra, forget_param,
                   eigen_system_dict, pca_function, counter, save_amount,
                   tracked_eigen_system_dict, sp, returned, exception, bootReads,
                   calls, writes>>

\* lines 564-567
Return ==
    /\ pc = "for_k"
    /\ k >= args.number_of_iterations
    /\ returned' = [done |-> TRUE, state |-> eigen_system_dict,
                    tracked |-> IF args.save_extra_param
                                THEN tracked_eigen_system_dict ELSE EmptyDict,
                    with_tracked |-> args.save_extra_param]
    /\ pc' = "done"
    /\ UNCHANGED secondRun
    /\ UNCHANGED oneCall
    /\ UNCHANGED <<args, gen, np_random_seed, amount_of_spectra, forget_param,
                   data, errors, eigen_system_dict, pca_function, counter,
                   save_amount, tracked_eigen_system_dict, start, k, sp, exception,
                   bootReads, shuffles, calls, writes, events>>

Next ==
    \/ Configure
    \/ SeedAssign
    \/ InitialShuffle
    \/ Bootstrap
    \/ SelectUpdater
    \/ PassBegin
    \/ Track
    \/ Update
    \/ PassEnd
    \/ Return

Spec == Init /\ [][Next]_vars

TypeOK ==
    /\ pc \in {"start", "seed", "shuffle", "boot", "select", "for_k", "for_sp",
               "update", "raised", "done"}
    /\ exception \in {"None", "ValueError", "IndexError"}
    /\ counter \in Nat

\* ---- two runs of the same arguments ----
\* The second run starts when the first has returned, from a generator state
\* of its own (another process, or the same process later).  It is the same
\* code with the steps left out that touch neither the order nor the generator.
PairArgSets ==
    {a \in ArgSets : /\ a.errors = None
                     /\ a.forget_param = None
                     /\ a.memory = 1
                     /\ a.amount_of_eigen = 0
                     /\ ~ a.save_extra_param
                     /\ \A i \in DOMAIN a.data : a.data[i] = a.data[0]}

InitPair ==
    /\ InitRun(PairArgSets)
    /\ genB \in Range0(GenStates)
    /\ pcB = "start"
    /\ dataB = [i \in {} |-> 0]
    /\ shufflesB = << >>
    /\ NoCall

firstRun == <<args, gen, np_random_seed, pc, amount_of_spectra, forget_param, data,
              errors, eigen_system_dict, pca_function, counter, save_amount,
              tracked_eigen_system_dict, start, k, sp, returned, exception,
              bootReads, shuffles, calls, writes, events>>

\* lines 515-523 of the second run
SecondConfigure ==
    /\ pc = "done"
    /\ pcB = "start"
    /\ dataB' = [i \in Range0(Cardinality(DOMAIN args.data)) |-> i]
    /\ pcB' = "shuffle"
    /\ UNCHANGED <<genB, shufflesB>>
    /\ UNCHANGED firstRun
    /\ UNCHANGED oneCall

\* line 524 of the second run
SecondInitialShuffle ==
    /\ pcB = "shuffle"
    /\ LET r == randomise_data_order(dataB, [kind |-> "None", rows |-> [i \in {} |-> 0]], genB)
       IN  /\ dataB' = r.data
           /\ genB' = r.gen
           /\ shufflesB' = Append(shufflesB, r.perm)
    /\ pcB' = "loop"
    /\ UNCHANGED firstRun
    /\ UNCHANGED oneCall

\* line 562 of the second run, once per pass
SecondPassEnd ==
    /\ pcB = "loop"
    /\ Len(shufflesB) < 1 + args.number_of_iterations
    /\ LET r == randomise_data_order(dataB, [kind |-> "list of None",
                                             rows |-> [i \in DOMAIN dataB |-> NoneRow]], genB)
       IN  /\ dataB' = r.data
           /\ genB' = r.gen
           /\ shufflesB' = Append(shufflesB, r.perm)
    /\ pcB' = "loop"
    /\ UNCHANGED firstRun
    /\ UNCHANGED oneCall

\* lines 564-567 of the second run
SecondReturn ==
    /\ pcB = "loop"
    /\ Len(shufflesB) >= 1 + args.number_of_iterations
    /\ pcB' = "done"
    /\ UNCHANGED <<genB, dataB, shufflesB>>
    /\ UNCHANGED firstRun
    /\ UNCHANGED oneCall

NextPair ==
    \/ Configure
    \/ SeedAssign
    \/ InitialShuffle
    \/ Bootstrap
    \/ SelectUpdater
    \/ PassBegin
    \/ Track
    \/ Update
    \/ PassEnd
    \/ Return
    \/ SecondConfigure
    \/ SecondInitialShuffle
    \/ SecondPassEnd
    \/ SecondReturn

SpecPair == InitPair /\ [][NextPair]_vars

\* C6: two runs given identical data, mask, options and random_seed apply the
\* same sequence of permutations, whatever the state of the process-wide
\* generator before each run, and so process the observations in one order.
C6_SameSeedSameOrder ==
    (pc = "done" /\ pcB = "done")
        => /\ shufflesB = shuffles
           /\ dataB = data

\* ---- one call of mag_residual_sq ----
\* the residuals of r observations, and a mask map of m observations or None
ResidualValues == {-1, 0, 2}

MaskCallInputs ==
    UNION { [residuals : [Range0(r) -> ResidualValues],
             error_map : {None} \cup UNION {[Range0(m) -> 0 .. 1] : m \in 1 .. MaxRows}]
            : r \in 1 .. MaxRows }

\* the run itself stays before its first line
IdleArgs ==
    {a \in ArgSets : /\ DOMAIN a.data = {0}
                     /\ a.data[0] = 0
                     /\ a.errors = None
                     /\ a.amount_of_eigen = 0
                     /\ a.amount_to_initalise = 0
                     /\ a.number_of_iterations = 0
                     /\ a.forget_param = None
                     /\ a.memory = 1
                     /\ ~ a.save_extra_param}

InitMask ==
    /\ InitRun(IdleArgs)
    /\ gen = 0
    /\ genB = 0
    /\ pcB = "idle"
    /\ dataB = [i \in {} |-> 0]
    /\ shufflesB = << >>
    /\ maskIn \in MaskCallInputs
    /\ maskOut = [exception |-> "None", value |-> NoArray]
    /\ maskPc = "start"

\* lines 217-223
CallMagResidualSq ==
    /\ maskPc = "start"
    /\ maskOut' = mag_residual_sq(maskIn.residuals, maskIn.error_map)
    /\ maskPc' = "done"
    /\ UNCHANGED maskIn
    /\ UNCHANGED firstRun
    /\ UNCHANGED secondRun

NextMask == CallMagResidualSq

SpecMask == InitMask /\ [][NextMask]_vars

\* ---- runs with a shape parameter of the caller's choice ----
\* run_robust_pca called with c_sq left at its default or set to another value;
\* no mask, no forget value, the default memory
ShapeArgSets ==
    UNION { [data : DataSets(n),
             errors : {None},
             amount_of_eigen : AmountsOfEigen,
             amount_to_initalise : 0 .. MaxSeed,
             number_of_iterations : 0 .. MaxPasses,
             forget_param : {None},
             memory : {1},
             save_extra_param : {FALSE},
             random_seed : RandomSeeds,
             c_sq : ShapeParams] : n \in 1 .. MaxN }

InitShape ==
    /\ InitRun(ShapeArgSets)
    /\ genB = 0
    /\ pcB = "idle"
    /\ dataB = [i \in {} |-> 0]
    /\ shufflesB = << >>
    /\ NoCall

SpecShape == InitShape /\ [][Next]_vars


\* ---- what the claims speak of ----
N == Cardinality(DOMAIN args.data)

SeedSize == args.amount_to_initalise

Passes == args.number_of_iterations

Bootstrapped == pc \in {"select", "for_k", "for_sp", "update", "raised", "done"}

\* the data and the mask as the bootstrap saw them: the arguments reordered
\* by the first permutation
RowsAtBootstrap == [i \in Range0(N) |-> args.data[shuffles[1][i]]]

MaskAtBootstrap == IF args.errors = None THEN None
                   ELSE [i \in Range0(N) |-> args.errors[shuffles[1][i]]]

BootstrapState ==
    initalise_robust_pca_param(RowsAtBootstrap, MaskAtBootstrap,
                               args.amount_of_eigen, SeedSize, DefaultCSq).dict

\* the indices of one pass in increasing order, as <<pass, index>>
PassIndices(pass, from) ==
    [j \in 1 .. (IF N > from THEN N - from ELSE 0) |-> <<pass, from + j - 1>>]

RECURSIVE ExpectedUpTo(_)
\* the <<pass, index>> pairs of the passes 0..pass-1
ExpectedUpTo(pass) ==
    IF pass = 0 THEN << >>
    ELSE ExpectedUpTo(pass - 1)
         \o PassIndices(pass - 1, IF pass = 1 THEN SeedSize ELSE 0)

Processed == [j \in 1 .. Len(calls) |-> <<calls[j].k, calls[j].sp>>]

IsPrefix(s, t) == Len(s) <= Len(t) /\ s = SubSeq(t, 1, Len(s))

\* C1: with 1 <= seed_size <= N and number_of_passes >= 1, when the run
\* returns the number of update steps equals N*number_of_passes - seed_size + 1,
\* the number of rows of the diagnostic buffer, and every row has been written.
C1_UpdateCountEqualsRows ==
    (pc = "done" /\ 1 <= SeedSize /\ SeedSize <= N /\ Passes >= 1)
        => /\ Len(calls) = N * Passes - SeedSize + 1
           /\ tracked_eigen_system_dict.allocated
           /\ Cardinality(DOMAIN tracked_eigen_system_dict.W) = Len(calls)
           /\ \A i \in DOMAIN tracked_eigen_system_dict.W :
                 ~ tracked_eigen_system_dict.W[i].zeros

\* C2: pass 0 applies the update step to exactly the indices seed_size..N-1,
\* every later pass to exactly 0..N-1, in increasing order and once each.
C2_PassIndexRanges ==
    /\ IsPrefix(Processed, ExpectedUpTo(Passes))
    /\ pc = "done" => Processed = ExpectedUpTo(Passes)
    /\ \A j \in 1 .. Len(calls) : calls[j].k = 0 => calls[j].sp >= SeedSize

C2_Witness ==
    /\ pc = "done"
    /\ Passes = 2
    /\ SeedSize >= 1
    /\ SeedSize < N
    /\ Len(calls) = 2 * N - SeedSize

\* C3: diagnostic row i holds the state as it was immediately before update
\* i+1: row 0 the bootstrap state, row i the state returned by update i; rows
\* are written in increasing order, none twice, and the returned state is in
\* no row.
C3_RowsHoldPreUpdateState ==
    /\ \A j \in 1 .. Len(writes) :
          /\ writes[j].row = j - 1
          /\ writes[j].state = IF j = 1 THEN BootstrapState ELSE calls[j - 1].result
          /\ tracked_eigen_system_dict.W[j - 1] = ValueOf("W", writes[j].state)
          /\ tracked_eigen_system_dict.sig2[j - 1] = ValueOf("sig2", writes[j].state)
          /\ tracked_eigen_system_dict.vqu[j - 1] = ValueOf("vqu", writes[j].state)
    /\ Len(writes) \in {Len(calls), Len(calls) + 1}
    /\ returned.done =>
          /\ \A j \in 1 .. Len(writes) : writes[j].state # returned.state
          /\ returned.with_tracked => returned.tracked = tracked_eigen_system_dict

C3_Witness ==
    /\ returned.done
    /\ returned.with_tracked
    /\ Len(writes) >= 3
    /\ Passes = 2

\* C4: the state is created by the bootstrap and changes only through update
\* calls: the first call is handed the bootstrap state, call t+1 the state
\* call t returned, recording and reshuffling leave it alone, and the run
\* returns the last state.
LatestState == IF calls = << >> THEN BootstrapState ELSE calls[Len(calls)].result

C4_StateThreading ==
    /\ \A j \in 1 .. Len(calls) :
          calls[j].state = IF j = 1 THEN BootstrapState ELSE calls[j - 1].result
    /\ Bootstrapped => eigen_system_dict = LatestState
    /\ returned.done => returned.state = LatestState

C4_Witness ==
    /\ returned.done
    /\ Len(calls) >= 3
    /\ Len(shuffles) = 3

\* C5: the observations and the mask map are reordered by one and the same
\* permutation: the mask row at index i belongs to the observation at index
\* i, and the order is a permutation of the observations.
C5_PairingPreserved ==
    pc # "start" =>
        /\ {data[i] : i \in DOMAIN data} = Range0(N)
        /\ DOMAIN data = Range0(N)
        /\ errors.kind = "array" => \A i \in Range0(N) : errors.rows[i] = data[i]
        /\ (args.errors # None) = (errors.kind = "array")

C5_Witness ==
    /\ pc = "done"
    /\ errors.kind = "array"
    /\ Len(shuffles) = 3
    /\ \E i \in Range0(N) : data[i] # i
    /\ shuffles[2] # shuffles[3]

\* C7: every update step of a run is handed one forgetting factor: the
\* supplied forget value when one is supplied, whatever it is and whatever
\* memory is, and otherwise 1 - 1/(N*memory).
ExpectedForget ==
    IF args.forget_param # None THEN args.forget_param
    ELSE <<N * args.memory - 1, N * args.memory>>

C7_ForgetFactorFixed ==
    /\ \A j \in 1 .. Len(calls) : calls[j].alpha = ExpectedForget
    /\ pc \notin {"start"} => forget_param = ExpectedForget

C7_Witness ==
    /\ pc = "done"
    /\ args.forget_param = None
    /\ args.memory = 2
    /\ Len(calls) >= 3
    /\ \E i, j \in 1 .. Len(calls) : calls[i].k # calls[j].k

\* C8 as claimed: the mean/centring step, the eigen-basis initialiser and the
\* residual step all read exactly the rows 0..seed_size-1 of the shuffled
\* order, so the mean of the state is the mean of the seed rows.
SeedRows == Range0(SeedSize)

C8_BootstrapReadsSeedOnly ==
    (Bootstrapped /\ SeedSize >= 1 /\ SeedSize <= N)
        => /\ bootReads.mean = SeedRows
           /\ bootReads.eigen = SeedRows
           /\ bootReads.residual = SeedRows
           /\ BootstrapState.m = <<SumOver(RowsAtBootstrap, SeedRows), SeedSize>>

\* C8 amended: the mean, the centring and the eigen basis are computed over
\* all N observations, so the mean and the eigenvalue of the bootstrap state
\* are those of the whole data set in any order; only the residual step is
\* restricted to the rows 0..min(seed_size, N)-1 of the shuffled order.
SquaredDeviations ==
    LET total == SumOver(args.data, Range0(N))
    IN  [i \in Range0(N) |-> (N * args.data[i] - total) * (N * args.data[i] - total)]

C8_MeanAndBasisOverAllRows ==
    Bootstrapped
        => /\ bootReads.mean = Range0(N)
           /\ bootReads.eigen = Range0(N)
           /\ bootReads.residual = Range0(Min(SeedSize, N))
           /\ BootstrapState.m = <<SumOver(args.data, Range0(N)), N>>
           /\ args.amount_of_eigen >= 1 =>
                 BootstrapState.W = << <<SumOver(SquaredDeviations, Range0(N)), N * N * N>> >>

C8_Witness ==
    /\ Bootstrapped
    /\ SeedSize >= 1
    /\ SeedSize < N
    /\ args.amount_of_eigen >= 1
    /\ SumOver(RowsAtBootstrap, SeedRows) * N # SumOver(args.data, Range0(N)) * SeedSize

\* C9: a scale^2 that is zero or undefined during the bootstrap aborts the run
\* before any update step: no update step is ever handed a state whose scale^2
\* is zero or undefined.
C9_NoDegenerateScaleInLoop ==
    /\ \A j \in 1 .. Len(calls) : calls[j].state.sig2 \notin {"zero", "nan"}
    /\ pc \in {"for_k", "for_sp", "update", "done"}
          => eigen_system_dict.sig2 \notin {"zero", "nan"}

\* C10: exactly one reordering lies between the last update of a pass and the
\* first update of the next, one before the bootstrap, none between the
\* bootstrap and the first update of pass 0; pass 0 skips the observations
\* whose residuals entered the bootstrap.
Updates == {i \in 1 .. Len(events) : events[i].ev = "update"}

ShufflesBetween(i, j) ==
    Cardinality({h \in (i + 1) .. (j - 1) : events[h].ev = "shuffle"})

Consecutive(i, j) == i < j /\ \A h \in (i + 1) .. (j - 1) : h \notin Updates

C10_ReorderBetweenPasses ==
    /\ Len(events) >= 1 => events[1].ev = "shuffle"
    /\ Len(events) >= 2 => events[2].ev = "boot"
    /\ \A i \in 3 .. Len(events) : events[i].ev # "boot"
    /\ \A j \in Updates :
          (\A h \in 3 .. (j - 1) : h \notin Updates)
              => ShufflesBetween(2, j) = events[j].k
    /\ \A i, j \in Updates :
          Consecutive(i, j)
              => /\ events[j].k \in {events[i].k, events[i].k + 1}
                 /\ ShufflesBetween(i, j) = events[j].k - events[i].k
    /\ \A j \in 1 .. Len(calls) :
          calls[j].k = 0
              => /\ calls[j].new_spectra = shuffles[1][calls[j].sp]
                 /\ calls[j].sp \notin bootReads.residual
    /\ Len(shuffles) = Cardinality({h \in 1 .. Len(events) : events[h].ev = "shuffle"})

C10_Witness ==
    /\ pc = "done"
    /\ Passes = 2
    /\ SeedSize >= 1
    /\ SeedSize < N
    /\ \E i, j \in Updates :
          Consecutive(i, j) /\ events[i].k = 0 /\ events[j].k = 1

\* C11 as claimed: a mask map with fewer rows than there are residuals does
\* not make mag_residual_sq fail; its rows are applied to the leading
\* observations and the others are summed unmasked.
ResidualRows == Cardinality(DOMAIN maskIn.residuals)

MaskRows == Cardinality(DOMAIN maskIn.error_map)

SquaredUnless(flagged) ==
    [i \in DOMAIN maskIn.residuals |->
        IF i \in flagged THEN 0 ELSE maskIn.residuals[i] * maskIn.residuals[i]]

FlaggedRows ==
    IF maskIn.error_map = None THEN {}
    ELSE {i \in DOMAIN maskIn.error_map \cap DOMAIN maskIn.residuals :
             maskIn.error_map[i] = 0}

C11_ShortMaskLeadingSlice ==
    (maskPc = "done" /\ maskIn.error_map # None /\ MaskRows < ResidualRows)
        => /\ maskOut.exception = "None"
           /\ maskOut.value = SquaredUnless(FlaggedRows)

\* C11 amended: a mask map with at least as many rows as there are residuals
\* is cut to its leading rows and applied without failure; a mask map with
\* fewer rows makes the call fail with IndexError.
C11_LongMaskSlicedShortMaskFails ==
    maskPc = "done"
        => IF maskIn.error_map # None /\ MaskRows < ResidualRows
           THEN maskOut.exception = "IndexError"
           ELSE /\ maskOut.exception = "None"
                /\ maskOut.value = SquaredUnless(FlaggedRows)

C11_Witness ==
    /\ maskPc = "done"
    /\ maskIn.error_map # None
    /\ MaskRows < ResidualRows
    /\ FlaggedRows # {}
    /\ maskOut.exception = "IndexError"

\* ---- C12 ----
\* the columns of the truncated eigenvector matrix kept in the state
KeptColumns == Min(args.amount_of_eigen, number_of_pixels)

\* C12 as stated: the bootstrap's scale refinement runs exactly as many rounds
\* as eigenvectors are kept in the state, min(amount_of_eigen, P)
C12_RoundsEqualKeptColumns ==
    Bootstrapped => bootReads.rounds = KeptColumns

\* C12 amended: the bootstrap's scale refinement runs exactly amount_of_eigen
\* rounds, the number asked for, whatever the residuals are (no convergence
\* test, no early exit); that is the number of kept columns only while
\* amount_of_eigen <= P
C12_RoundsEqualAmountOfEigen ==
    Bootstrapped =>
        /\ bootReads.rounds = args.amount_of_eigen
        /\ (args.amount_of_eigen <= number_of_pixels
               => bootReads.rounds = KeptColumns)

\* more eigenvectors asked for than there are features: two rounds, one column
C12_Witness ==
    /\ Bootstrapped
    /\ args.amount_of_eigen > number_of_pixels
    /\ bootReads.rounds = args.amount_of_eigen
    /\ bootReads.rounds > KeptColumns
    /\ N > 0

\* ---- C13 ----
\* C13 as stated: for every N, seed size and number of passes, a seed larger
\* than the data set included, the buffer gets a non-negative number of rows,
\* every row written by track_eigensystem_updates lies inside the buffer and the
\* run never fails with an out-of-range write
C13_WritesStayInsideBuffer ==
    /\ exception = "None"
    /\ pc # "raised"
    /\ tracked_eigen_system_dict.allocated
           => /\ save_amount >= 0
              /\ Cardinality(DOMAIN tracked_eigen_system_dict.W) = save_amount
              /\ \A j \in DOMAIN writes :
                     writes[j].row \in DOMAIN tracked_eigen_system_dict.W

\* ---- C14 ----
\* C14 as stated: the shape parameter the run is configured with is the one
\* handed to the weighting function of the bootstrap's scale refinement, to the
\* derivative of the weighting function when the running statistics are
\* initialised, and to every incremental update call, whatever its value
C14_ConfiguredShapeParamEverywhere ==
    /\ bootReads.weight_shapes \subseteq {args.c_sq}
    /\ bootReads.derivative_shapes \subseteq {args.c_sq}
    /\ \A j \in DOMAIN calls : calls[j].c_sq = args.c_sq

====
